---- MODULE Spec2Model ----
(***************************************************************************)
(* Geometry module of the Langmuir model (LngmrMod_Geom.py): class Base    *)
(* (shared by RctMod2D, FeatMod2D and RctMod1D), the shapes Domain2D,      *)
(* Domain1D, Rectangle and Interval, and the point query get_mater.        *)
(*                                                                         *)
(* A shape is a record [cls, type, mater, dim, bl, ur].  bl and ur are     *)
(* tuples: of length 2 for Rectangle and Domain2D (self.bl, self.ur), of   *)
(* length 1 for Interval (lr[0], lr[1]) and Domain1D (domain[0],           *)
(* domain[1]).  A position is a tuple of length 2 (a (2, ) array) or of    *)
(* length 1 (a plain number, "var" in the docstrings).                     *)
(***************************************************************************)
EXTENDS Integers, Sequences, FiniteSets, TLC

VARIABLES sequence, has_domain, mater_set, mater_dict, dim, op, shape, posn, ret

vars == <<sequence, has_domain, mater_set, mater_dict, dim, op, shape, posn, ret>>

geom == <<sequence, has_domain, mater_set, mater_dict, dim>>

(* ---- bounds ---- *)

\* longest sequence the model builds (domain entries included)
MaxShapes == 4

\* largest coordinate of the shapes enumerated for the containment checks
MaxCoord == 2

(* ---- shapes ---- *)

\* Domain2D.__init__: mater 'Plasma', dim 2, ur = bl + domain, type 'Domain'
Domain2D(bl, domain) ==
    [cls |-> "Domain2D", type |-> "Domain", mater |-> "Plasma", dim |-> 2,
     bl |-> bl, ur |-> <<bl[1] + domain[1], bl[2] + domain[2]>>]

\* Domain1D.__init__: mater 'Plasma', dim 1, domain = (left, right), type 'Domain'
Domain1D(domain) ==
    [cls |-> "Domain1D", type |-> "Domain", mater |-> "Plasma", dim |-> 1,
     bl |-> <<domain[1]>>, ur |-> <<domain[2]>>]

\* Rectangle.__init__: dim 2, bl and ur stored as given (no validation)
Rectangle(mater, bottom_left, up_right) ==
    [cls |-> "Rectangle", type |-> "Rectangle", mater |-> mater, dim |-> 2,
     bl |-> bottom_left, ur |-> up_right]

\* Interval.__init__: dim 1, lr stored as given (no validation); an Interval
\* has no attribute type
Interval(mater, lr) ==
    [cls |-> "Interval", type |-> "None", mater |-> mater, dim |-> 1,
     bl |-> <<lr[1]>>, ur |-> <<lr[2]>>]

\* the value of the variable shape when the last call took no shape
NoShape ==
    [cls |-> "None", type |-> "None", mater |-> "None", dim |-> 0,
     bl |-> <<>>, ur |-> <<>>]

(* ---- containment ---- *)

\* `posn in shape` raises ValueError: the chained comparison of Interval and
\* Domain1D takes the truth value of an array when posn is a (2, ) array
Raises(s, p) == s.dim = 1 /\ Len(p) = 2

\* numpy broadcasting of a plain number against a (2, ) array
Bcast(p, i) == IF Len(p) = 1 THEN p[1] ELSE p[i]

\* containment with the boundaries excluded
Contains2D_Strict(s, p) ==
    /\ \A i \in 1..2 : s.bl[i] < Bcast(p, i)
    /\ \A i \in 1..2 : Bcast(p, i) < s.ur[i]

\* Rectangle.__contains__ / Domain2D.__contains__:
\*   all(self.bl <= posn) and all(posn <= self.ur)
Contains2D(s, p) ==
    /\ \A i \in 1..2 : s.bl[i] <= Bcast(p, i)
    /\ \A i \in 1..2 : Bcast(p, i) <= s.ur[i]

\* Interval.__contains__ / Domain1D.__contains__ on a plain number:
\*   self.lr[0] <= posn <= self.lr[1]
Contains1D(s, p) == s.bl[1] <= p[1] /\ p[1] <= s.ur[1]

\* `posn in shape`, where it does not raise
Contains(s, p) == IF s.dim = 2 THEN Contains2D(s, p) ELSE Contains1D(s, p)

\* outcome of the expression `posn in shape`
In(s, p) ==
    IF Raises(s, p) THEN "ValueError"
    ELSE IF Contains(s, p) THEN "True" ELSE "False"

(* ---- Base.get_mater ---- *)

RECURSIVE GetMaterLoop_Reset(_, _, _, _)
\* the loop with an else branch that resets mater to 'Plasma'
GetMaterLoop_Reset(seq, p, i, mater) ==
    IF i > Len(seq) THEN mater
    ELSE IF Raises(seq[i], p) THEN "ValueError"
    ELSE IF Contains(seq[i], p)
         THEN GetMaterLoop_Reset(seq, p, i + 1, seq[i].mater)
    ELSE GetMaterLoop_Reset(seq, p, i + 1, "Plasma")

RECURSIVE GetMaterLoop(_, _, _, _)
\* the for loop of get_mater from shape i on, with the current value of mater
GetMaterLoop(seq, p, i, mater) ==
    IF i > Len(seq) THEN mater
    ELSE IF Raises(seq[i], p) THEN "ValueError"
    ELSE IF Contains(seq[i], p) THEN GetMaterLoop(seq, p, i + 1, seq[i].mater)
    ELSE GetMaterLoop(seq, p, i + 1, mater)

\* get_mater(posn): mater = 'Plasma', then the loop over self.sequence
get_mater(seq, p) == GetMaterLoop(seq, p, 1, "Plasma")

(* ---- inputs ---- *)

Materials == {"Metal", "Quartz"}

\* the domains passed to add_domain
Domains == { Domain2D(<<0, 0>>, <<2, 2>>), Domain1D(<<0, 2>>) }

\* extents of the rectangles passed to add_shape: two squares sharing the
\* corner (1,1), a zero-extent one inside the second and apart from the
\* first, and a malformed one
Extents ==
    { <<<<0, 0>>, <<1, 1>>>>, <<<<1, 1>>, <<2, 2>>>>,
      <<<<2, 2>>, <<2, 2>>>>, <<<<2, 2>>, <<0, 0>>>> }

Shapes ==
    { Rectangle(m, e[1], e[2]) : m \in Materials, e \in Extents }
    \cup { Interval("Metal", <<0, 1>>), Interval("Quartz", <<1, 2>>) }

\* positions passed to get_mater: (2, ) arrays (corners of the extents, a
\* point beyond them, a point beyond them in one component only) and plain
\* numbers
Positions ==
    { <<0, 0>>, <<1, 1>>, <<2, 2>>, <<3, 3>>, <<0, 2>>, <<0, 3>> }
    \cup { <<1>>, <<3>> }

\* the string add_shape returns when no domain was created
ErrNoDomain == "Error: Domian is not created yet."

EmptyDict == [m \in {} |-> 0]

\* dict.update({k: v})
Update(d, k, v) == [m \in (DOMAIN d) \cup {k} |-> IF m = k THEN v ELSE d[m]]

(* ---- Base ---- *)

\* Base.__init__
Init ==
    /\ sequence = <<>>
    /\ has_domain = FALSE
    /\ mater_set = {}
    /\ mater_dict = EmptyDict
    /\ dim = 2
    /\ op = "init"
    /\ shape = NoShape
    /\ posn = <<>>
    /\ ret = "None"

\* add_domain as the assignment sequence = [domain]
add_domain_Replace(domain) ==
    /\ Len(sequence) < MaxShapes
    /\ sequence' = <<domain>>
    /\ mater_set' = mater_set \cup {domain.mater}
    /\ mater_dict' = Update(mater_dict, domain.mater, 0)
    /\ has_domain' = TRUE
    /\ op' = "add_domain"
    /\ shape' = domain
    /\ posn' = <<>>
    /\ ret' = "None"
    /\ UNCHANGED dim

\* add_domain with the index len(self.mater_set) for the domain's material
add_domain_IndexLen(domain) ==
    /\ Len(sequence) < MaxShapes
    /\ sequence' = Append(sequence, domain)
    /\ mater_set' = mater_set \cup {domain.mater}
    /\ mater_dict' = Update(mater_dict, domain.mater, Cardinality(mater_set'))
    /\ has_domain' = TRUE
    /\ op' = "add_domain"
    /\ shape' = domain
    /\ posn' = <<>>
    /\ ret' = "None"
    /\ UNCHANGED dim

\* add_domain that leaves has_domain alone
add_domain_NoFlag(domain) ==
    /\ Len(sequence) < MaxShapes
    /\ sequence' = Append(sequence, domain)
    /\ mater_set' = mater_set \cup {domain.mater}
    /\ mater_dict' = Update(mater_dict, domain.mater, 0)
    /\ op' = "add_domain"
    /\ shape' = domain
    /\ posn' = <<>>
    /\ ret' = "None"
    /\ UNCHANGED <<has_domain, dim>>

\* Base.add_domain(domain)
add_domain(domain) ==
    /\ Len(sequence) < MaxShapes
    /\ sequence' = Append(sequence, domain)
    /\ mater_set' = mater_set \cup {domain.mater}
    /\ mater_dict' = Update(mater_dict, domain.mater, 0)
    /\ has_domain' = TRUE
    /\ op' = "add_domain"
    /\ shape' = domain
    /\ posn' = <<>>
    /\ ret' = "None"
    /\ UNCHANGED dim

\* add_shape without the test of has_domain
add_shape_NoGate(s) ==
    /\ Len(sequence) < MaxShapes
    /\ sequence' = Append(sequence, s)
    /\ IF s.mater \in mater_set
       THEN UNCHANGED <<mater_set, mater_dict>>
       ELSE /\ mater_set' = mater_set \cup {s.mater}
            /\ mater_dict' =
                 Update(mater_dict, s.mater, Cardinality(mater_set') - 1)
    /\ ret' = "None"
    /\ op' = "add_shape"
    /\ shape' = s
    /\ posn' = <<>>
    /\ UNCHANGED <<has_domain, dim>>

\* add_shape with the index len(self.mater_set), taken after the add
add_shape_IndexOffByOne(s) ==
    /\ Len(sequence) < MaxShapes
    /\ IF has_domain
       THEN /\ sequence' = Append(sequence, s)
            /\ IF s.mater \in mater_set
               THEN UNCHANGED <<mater_set, mater_dict>>
               ELSE /\ mater_set' = mater_set \cup {s.mater}
                    /\ mater_dict' =
                         Update(mater_dict, s.mater, Cardinality(mater_set'))
            /\ ret' = "None"
       ELSE /\ ret' = ErrNoDomain
            /\ UNCHANGED <<sequence, mater_set, mater_dict>>
    /\ op' = "add_shape"
    /\ shape' = s
    /\ posn' = <<>>
    /\ UNCHANGED <<has_domain, dim>>

\* add_shape that appends the shape and leaves the registry alone
add_shape_NoRegister(s) ==
    /\ Len(sequence) < MaxShapes
    /\ IF has_domain
       THEN /\ sequence' = Append(sequence, s)
            /\ UNCHANGED <<mater_set, mater_dict>>
            /\ ret' = "None"
       ELSE /\ ret' = ErrNoDomain
            /\ UNCHANGED <<sequence, mater_set, mater_dict>>
    /\ op' = "add_shape"
    /\ shape' = s
    /\ posn' = <<>>
    /\ UNCHANGED <<has_domain, dim>>

\* add_shape that inserts the shape right after the domain
add_shape_Insert(s) ==
    /\ Len(sequence) < MaxShapes
    /\ IF has_domain
       THEN /\ sequence' = <<Head(sequence), s>> \o Tail(sequence)
            /\ IF s.mater \in mater_set
               THEN UNCHANGED <<mater_set, mater_dict>>
               ELSE /\ mater_set' = mater_set \cup {s.mater}
                    /\ mater_dict' =
                         Update(mater_dict, s.mater, Cardinality(mater_set') - 1)
            /\ ret' = "None"
       ELSE /\ ret' = ErrNoDomain
            /\ UNCHANGED <<sequence, mater_set, mater_dict>>
    /\ op' = "add_shape"
    /\ shape' = s
    /\ posn' = <<>>
    /\ UNCHANGED <<has_domain, dim>>

\* Base.add_shape(shape)
add_shape(s) ==
    /\ Len(sequence) < MaxShapes
    /\ IF has_domain
       THEN /\ sequence' = Append(sequence, s)
            /\ IF s.mater \in mater_set
               THEN UNCHANGED <<mater_set, mater_dict>>
               ELSE /\ mater_set' = mater_set \cup {s.mater}
                    /\ mater_dict' =
                         Update(mater_dict, s.mater, Cardinality(mater_set') - 1)
            /\ ret' = "None"
       ELSE /\ ret' = ErrNoDomain
            /\ UNCHANGED <<sequence, mater_set, mater_dict>>
    /\ op' = "add_shape"
    /\ shape' = s
    /\ posn' = <<>>
    /\ UNCHANGED <<has_domain, dim>>

\* get_mater that registers the material it returns
GetMater_Registers(p) ==
    /\ op' = "get_mater"
    /\ shape' = NoShape
    /\ posn' = p
    /\ ret' = get_mater(sequence, p)
    /\ mater_set' = mater_set \cup {ret'}
    /\ mater_dict' =
         IF ret' \in DOMAIN mater_dict THEN mater_dict
         ELSE Update(mater_dict, ret', Cardinality(mater_set))
    /\ UNCHANGED <<sequence, has_domain, dim>>

\* Base.get_mater(posn)
GetMater(p) ==
    /\ op' = "get_mater"
    /\ shape' = NoShape
    /\ posn' = p
    /\ ret' = get_mater(sequence, p)
    /\ UNCHANGED geom

AddDomain == \E d \in Domains : add_domain(d)

AddShape == \E s \in Shapes : add_shape(s)

Query == \E p \in Positions : GetMater(p)

Next == AddDomain \/ AddShape \/ Query

Spec == Init /\ [][Next]_vars

(* ---- containment of one position in one shape ---- *)

Coords == 0..MaxCoord

Pairs == { <<x, y>> : x \in Coords, y \in Coords }

\* every shape with coordinates up to MaxCoord, malformed ones included
AllShapes ==
    { Rectangle("Metal", b, u) : b \in Pairs, u \in Pairs }
    \cup { Domain2D(b, d) : b \in Pairs, d \in Pairs }
    \cup { Interval("Metal", lr) : lr \in Pairs }
    \cup { Domain1D(d) : d \in Pairs }

\* every position up to one step beyond the largest ur of AllShapes
AllPositions ==
    { <<x, y>> : x \in 0..(2 * MaxCoord + 1), y \in 0..(2 * MaxCoord + 1) }
    \cup { <<x>> : x \in 0..(2 * MaxCoord + 1) }

\* a shape and a position, before `posn in shape` is evaluated
InitContains ==
    /\ sequence = <<>>
    /\ has_domain = FALSE
    /\ mater_set = {}
    /\ mater_dict = EmptyDict
    /\ dim = 2
    /\ op = "init"
    /\ shape \in AllShapes
    /\ posn \in AllPositions
    /\ ret = "None"

\* `posn in shape`
EvalContains ==
    /\ op = "init"
    /\ op' = "contains"
    /\ ret' = In(shape, posn)
    /\ UNCHANGED <<geom, shape, posn>>

NextContains == EvalContains

SpecContains == InitContains /\ [][NextContains]_vars

(* ---- properties ---- *)

\* indices of the shapes of seq that contain p
Containing(seq, p) == { i \in 1..Len(seq) : Contains(seq[i], p) }

Max(S) == CHOOSE x \in S : \A y \in S : y <= x

\* material of the last shape of seq containing p, "Plasma" when there is none
LastContaining(seq, p) ==
    IF Containing(seq, p) = {} THEN "Plasma"
    ELSE seq[Max(Containing(seq, p))].mater

\* C1: whatever the geometry built by add_domain and add_shape and whatever
\* the position, get_mater returns the material of the last shape of sequence
\* (in insertion order) that contains the position, and "Plasma" when no shape
\* contains it.
C1_LastShapeWins ==
    op = "get_mater" => ret = LastContaining(sequence, posn)

\* C2: add_shape on a geometry without domain returns the error string and
\* leaves sequence, mater_set, mater_dict and has_domain as they were; as long
\* as no domain was added, sequence and the registry are empty.
C2_NoDomainNoShape ==
    /\ [](~has_domain =>
            sequence = <<>> /\ mater_set = {} /\ mater_dict = EmptyDict)
    /\ [][(~has_domain /\ op' = "add_shape") =>
            /\ ret' = ErrNoDomain
            /\ sequence' = sequence
            /\ mater_set' = mater_set
            /\ mater_dict' = mater_dict
            /\ has_domain' = has_domain]_vars

\* a rejected add_shape on the fresh geometry
C2_Witness ==
    /\ op = "add_shape" /\ ~has_domain /\ ret = ErrNoDomain
    /\ shape \in Shapes /\ sequence = <<>> /\ mater_dict = EmptyDict

\* C3: add_domain on a geometry that has a domain fails with
\* DomainAlreadyExistsError and changes neither the domain, nor sequence, nor
\* the registry.
C3_SecondDomainRejected ==
    [][(has_domain /\ op' = "add_domain") =>
         /\ ret' = "DomainAlreadyExistsError"
         /\ sequence' = sequence
         /\ mater_set' = mater_set
         /\ mater_dict' = mater_dict
         /\ has_domain' = has_domain]_vars

\* materials of seq without repetition, in the order of their first shape
RECURSIVE FirstSeen(_)
FirstSeen(seq) ==
    IF seq = <<>> THEN <<>>
    ELSE LET front == FirstSeen(SubSeq(seq, 1, Len(seq) - 1))
             m == seq[Len(seq)].mater
         IN  IF \E i \in 1..Len(front) : front[i] = m THEN front
             ELSE Append(front, m)

\* C4: the Nth distinct material added has index N-1 in mater_dict; the
\* indices are pairwise distinct and are exactly 0..(number of materials - 1);
\* an index never changes, and a shape whose material is registered leaves
\* the registry unchanged.
C4_RegistryIndices ==
    /\ [](LET fs == FirstSeen(sequence)
          IN  /\ DOMAIN mater_dict = { fs[i] : i \in 1..Len(fs) }
              /\ \A i \in 1..Len(fs) : mater_dict[fs[i]] = i - 1
              /\ \A m, n \in DOMAIN mater_dict :
                     mater_dict[m] = mater_dict[n] => m = n
              /\ { mater_dict[m] : m \in DOMAIN mater_dict }
                     = 0..(Cardinality(DOMAIN mater_dict) - 1))
    /\ [][/\ \A m \in DOMAIN mater_dict :
                 m \in DOMAIN mater_dict' /\ mater_dict'[m] = mater_dict[m]
          /\ (op' = "add_shape" /\ shape'.mater \in DOMAIN mater_dict) =>
                 (mater_dict' = mater_dict /\ mater_set' = mater_set)]_vars

\* Plasma, Metal, Quartz, then Metal again: indices 0, 1, 2 and 1
C4_Witness ==
    /\ Len(sequence) = 4
    /\ sequence[1].mater = "Plasma" /\ sequence[2].mater = "Metal"
    /\ sequence[3].mater = "Quartz" /\ sequence[4].mater = "Metal"
    /\ op = "add_shape"
    /\ mater_dict["Plasma"] = 0 /\ mater_dict["Metal"] = 1
    /\ mater_dict["Quartz"] = 2

\* C5: the materials of the registry (mater_set, and the keys of mater_dict)
\* are exactly the materials of the shapes of sequence.
C5_RegistryIsMaterialsOfSequence ==
    /\ mater_set = { sequence[i].mater : i \in 1..Len(sequence) }
    /\ DOMAIN mater_dict = { sequence[i].mater : i \in 1..Len(sequence) }

\* a geometry with overlays of two materials
C5_Witness ==
    /\ Len(sequence) >= 3
    /\ Cardinality({ sequence[i].mater : i \in 1..Len(sequence) }) = 3
    /\ op = "add_shape" /\ ret = "None"

\* C6: add_shape of a shape whose dim differs from the dim of the geometry
\* fails with DimensionMismatchError and appends nothing, so every shape of
\* sequence has the dim of the geometry (dim is 2 for every subclass of Base,
\* RctMod1D included).
C6_DimensionChecked ==
    /\ [](\A i \in 1..Len(sequence) : sequence[i].dim = dim)
    /\ [][(op' = "add_shape" /\ shape'.dim # dim) =>
            (ret' = "DimensionMismatchError" /\ sequence' = sequence)]_vars

\* C7: once a domain was added, sequence[0] is that Domain in every later
\* state: no add_domain and no add_shape removes, replaces or moves it.
C7_DomainStaysFirst ==
    /\ [](has_domain => (Len(sequence) >= 1 /\ sequence[1].type = "Domain"))
    /\ [][has_domain =>
            (Len(sequence') >= 1 /\ sequence'[1] = sequence[1])]_vars

\* a domain, then an overlay and another add_domain with a different domain
C7_Witness ==
    /\ has_domain /\ Len(sequence) >= 3
    /\ \E i \in 2..Len(sequence) : sequence[i].type = "Rectangle"
    /\ \E i \in 2..Len(sequence) :
           sequence[i].type = "Domain" /\ sequence[i] # sequence[1]

\* C8: sequence is append-only: a successful add_shape(s) makes sequence the
\* old sequence followed by s, and no step shortens or reorders sequence.
C8_AppendOnly ==
    [][/\ Len(sequence') >= Len(sequence)
       /\ SubSeq(sequence', 1, Len(sequence)) = sequence
       /\ (op' = "add_shape" /\ ret' = "None") =>
              sequence' = Append(sequence, shape')]_vars

\* an overlay appended behind another overlay of another extent
C8_Witness ==
    /\ op = "add_shape" /\ ret = "None" /\ Len(sequence) >= 3
    /\ sequence[Len(sequence)] = shape
    /\ sequence[Len(sequence) - 1].type = "Rectangle"
    /\ sequence[Len(sequence) - 1] # shape

\* C9: has_domain starts false and never returns to false, add_domain is the
\* only step that sets it, and sequence never holds more than one Domain.
C9_DomainInstalledOnce ==
    /\ ~has_domain
    /\ [][has_domain => has_domain']_vars
    /\ [][(~has_domain /\ has_domain') => op' = "add_domain"]_vars
    /\ [](Cardinality({ i \in 1..Len(sequence) :
                          sequence[i].type = "Domain" }) <= 1)

\* the shape is given by bl <= ur in every component
WellFormed(s) == \A i \in 1..Len(s.bl) : s.bl[i] <= s.ur[i]

C11_UncoveredIsPlasma ==
    (/\ op = "get_mater" /\ has_domain
     /\ \A i \in 2..Len(sequence) : In(sequence[i], posn) # "True") =>
        ret = "Plasma"

\* C12: get_mater is a pure query: it leaves sequence, the registry and
\* has_domain unchanged, and a repeated call with the same position on the
\* unchanged geometry has the same outcome.
C12_QueryIsPure ==
    /\ [][op' = "get_mater" =>
            /\ sequence' = sequence
            /\ mater_set' = mater_set
            /\ mater_dict' = mater_dict
            /\ has_domain' = has_domain]_vars
    /\ [][(op = "get_mater" /\ op' = "get_mater" /\ posn' = posn) =>
            ret' = ret]_vars

\* a query answered by an overlay, on a geometry of three materials
C12_Witness ==
    /\ op = "get_mater" /\ Len(sequence) >= 3
    /\ ret = "Quartz" /\ mater_dict = [Plasma |-> 0, Metal |-> 1, Quartz |-> 2]

\* C13: a shape with a malformed extent (Interval with low > high, Rectangle
\* whose bottom_left is not <= up_right in every component) cannot be
\* constructed, so no such shape is ever stored in sequence and none is ever
\* passed to add_shape; a zero-extent shape is constructed.
C13_NoMalformedShape ==
    /\ [](\A i \in 1..Len(sequence) : WellFormed(sequence[i]))
    /\ [](op = "add_shape" => WellFormed(shape))

\* C14: add_domain on the empty geometry leaves sequence = [domain], the
\* domain's material as the only registry entry, with index 0, and has_domain
\* true; the material of the domain keeps index 0 in every later state.
C14_InstallDomain ==
    /\ [][(~has_domain /\ op' = "add_domain") =>
            /\ sequence' = <<shape'>>
            /\ shape'.type = "Domain"
            /\ mater_set' = {shape'.mater}
            /\ mater_dict' = [m \in {shape'.mater} |-> 0]
            /\ has_domain']_vars
    /\ [](has_domain => mater_dict[sequence[1].mater] = 0)
    /\ [][has_domain => mater_dict'[sequence[1].mater] = 0]_vars

\* the domain's material still at index 0 after two overlays of new materials
\* and a repeated add_domain
C14_Witness ==
    /\ has_domain /\ Len(sequence) = 4 /\ op = "add_domain"
    /\ Cardinality(DOMAIN mater_dict) = 3
    /\ mater_dict[sequence[1].mater] = 0

\* C15: when two shapes of different materials both contain a position (a
\* shared boundary point, or any other common point) and no shape added after
\* the later of the two contains it, get_mater resolves the position to the
\* material of the later one.
C15_LaterOfTwoWins ==
    op = "get_mater" =>
      \A i, j \in 1..Len(sequence) :
        (/\ i < j
         /\ sequence[i].mater # sequence[j].mater
         /\ In(sequence[i], posn) = "True"
         /\ In(sequence[j], posn) = "True"
         /\ \A k \in (j + 1)..Len(sequence) : In(sequence[k], posn) # "True")
        => ret = sequence[j].mater

\* C16: a successful add_shape(s) changes the answers of get_mater inside s
\* only: afterwards every position s contains resolves to s.mater, and every
\* other position resolves as before the call.
C16_AddShapeChangesOnlyInside ==
    [][(op' = "add_shape" /\ ret' = "None") =>
         \A p \in Positions :
            IF In(shape', p) = "True"
            THEN get_mater(sequence', p) = shape'.mater
            ELSE get_mater(sequence', p) = get_mater(sequence, p)]_vars

\* C17: with a domain, the material get_mater returns is a key of mater_dict;
\* without one, get_mater returns "Plasma" although the registry is empty.
C17_ResultIsRegistered ==
    op = "get_mater" =>
      IF has_domain THEN ret \in DOMAIN mater_dict
      ELSE ret = "Plasma" /\ mater_dict = EmptyDict /\ mater_set = {}

\* positions of both kinds around the extents of Shapes
Universe ==
    { <<x, y>> : x \in 0..3, y \in 0..3 } \cup { <<x>> : x \in 0..3 }

\* no position is in both shapes
Disjoint(a, b) ==
    \A p \in Universe : ~(In(a, p) = "True" /\ In(b, p) = "True")

\* seq with its last two shapes in the other order
SwapLast2(seq) ==
    SubSeq(seq, 1, Len(seq) - 2) \o <<seq[Len(seq)], seq[Len(seq) - 1]>>

\* the last two shapes of sequence were added by add_shape
LastTwoAdded ==
    /\ Len(sequence) >= 3
    /\ sequence[Len(sequence) - 1].cls \in {"Rectangle", "Interval"}
    /\ sequence[Len(sequence)].cls \in {"Rectangle", "Interval"}

\* C18: adding two shapes without a common position commutes for the query:
\* add_shape(a); add_shape(b) and add_shape(b); add_shape(a) from the same
\* geometry give the same outcome of get_mater at every position.
C18_DisjointShapesCommute ==
    (/\ LastTwoAdded
     /\ Disjoint(sequence[Len(sequence) - 1], sequence[Len(sequence)])) =>
        \A p \in Universe :
           get_mater(sequence, p) = get_mater(SwapLast2(sequence), p)

\* two rectangles apart from each other, of different materials
C18_Witness ==
    /\ LastTwoAdded /\ op = "add_shape"
    /\ Disjoint(sequence[Len(sequence) - 1], sequence[Len(sequence)])
    /\ sequence[Len(sequence) - 1].mater # sequence[Len(sequence)].mater
    /\ \E p \in Universe : In(sequence[Len(sequence) - 1], p) = "True"
    /\ \E p \in Universe : In(sequence[Len(sequence)], p) = "True"
    /\ \A i \in 1..Len(sequence) : sequence[i].dim = 2

\* C19: has_domain is true iff sequence is not empty, and mater_set is the
\* set of keys of mater_dict.
C19_FlagAndRegistryAgree ==
    /\ has_domain <=> sequence # <<>>
    /\ mater_set = DOMAIN mater_dict

\* a domain and one overlay of a new material
C19_Witness ==
    /\ has_domain /\ Len(sequence) = 2 /\ op = "add_shape"
    /\ mater_set = {"Plasma", "Quartz"}
    /\ DOMAIN mater_dict = {"Plasma", "Quartz"}

====
